---- MODULE Spec2Model ----
(***************************************************************************)
(* Model of the media and merchant-order operations of the wechat client  *)
(* (src/client/client_media.go, src/client/client_merchant_order.go).     *)
(*                                                                         *)
(* Every operation is one call of one caller.  A call is split at the     *)
(* places where it talks to a collaborator (token provider, buffer pool,  *)
(* transport); the deferred statements of the Go code run in the step     *)
(* that returns.  Each call keeps a log of the interactions it performed, *)
(* which is what the properties below speak about.                        *)
(***************************************************************************)
EXTENDS Integers, Sequences, FiniteSets, TLC

\* ------------------------------------------------------------------ bounds
\* number of callers that may be inside MediaUpload at the same time
NumCalls == 2
\* longest raw (non-JSON) response body / file content, in bytes
MaxBodyLen == 2

\* --------------------------------------------------------------- constants
\* http.StatusOK
StatusOK == 200
\* the first byte of a JSON object, '{'
JSONObjectOpen == 123

Procs == 1..NumCalls
Buffers == 1..NumCalls

\* media.MEDIA_TYPE_IMAGE, _VOICE, _VIDEO, _THUMB
MEDIA_TYPE_IMAGE == "image"
MEDIA_TYPE_VOICE == "voice"
MEDIA_TYPE_VIDEO == "video"
MEDIA_TYPE_THUMB == "thumb"
MediaTypes == {MEDIA_TYPE_IMAGE, MEDIA_TYPE_VOICE, MEDIA_TYPE_VIDEO, MEDIA_TYPE_THUMB}

\* ------------------------------------------------------------------ errors
\* A Go error value.  kind "nil" is the nil error; kind "remote" is the
\* *Error built from a decoded envelope (ErrCode, ErrMsg); kind "status" is
\* fmt.Errorf("http.Status: %s", resp.Status).
Err(kind, code, msg) == [kind |-> kind, code |-> code, msg |-> msg]
NilErr == Err("nil", 0, 0)
PreconditionErr(n) == Err("precondition", n, 0)
StatusErr(status) == Err("status", status, 0)
DecodeErr == Err("decode", 0, 0)
RemoteErr(code, msg) == Err("remote", code, msg)
\* errors produced by the collaborators
TokenErrs == {Err("token", 1, 0), Err("token", 2, 0)}
TransportErrs == {Err("transport", 1, 0), Err("transport", 2, 0)}
IOErrs == {Err("formfile", 0, 0), Err("read", 0, 0), Err("close", 0, 0)}
OpenErr == Err("open", 0, 0)
WriteErr == Err("write", 0, 0)

\* ----------------------------------------------------------------- results
\* The first return value of an operation.  kind "nil" is the nil pointer /
\* nil slice; "upload" is a *media.UploadResponse; "order" an *order.Order;
\* "orders" an []order.Order.
NilResult ==
    [kind |-> "nil", MediaType |-> 0, MediaId |-> 0, CreatedAt |-> 0, Order |-> 0]
UploadResponse(type, id, at) ==
    [kind |-> "upload", MediaType |-> type, MediaId |-> id, CreatedAt |-> at, Order |-> 0]
OrderResult(o) ==
    [kind |-> "order", MediaType |-> 0, MediaId |-> 0, CreatedAt |-> 0, Order |-> o]
OrderListResult(l) ==
    [kind |-> "orders", MediaType |-> 0, MediaId |-> 0, CreatedAt |-> 0, Order |-> l]

\* ------------------------------------------------------------ JSON on the wire
\* A body is a sequence of bytes.  A JSON object with the keys this client
\* reads is written as '{' followed by one value per key, in the order of
\* JSONKeys; the value 0 stands for an absent key (Go's zero value).
JSONKeys ==
    <<"errcode", "errmsg", "type", "media_id", "thumb_media_id", "created_at",
      "order", "order_list">>
Doc(errcode, errmsg, type, media_id, thumb_media_id, created_at, order, order_list) ==
    [errcode |-> errcode, errmsg |-> errmsg, type |-> type, media_id |-> media_id,
     thumb_media_id |-> thumb_media_id, created_at |-> created_at,
     order |-> order, order_list |-> order_list]
JSONEncode(d) ==
    <<JSONObjectOpen>> \o [i \in 1..Len(JSONKeys) |-> d[JSONKeys[i]]]
\* json.NewDecoder(body).Decode(&v): ok is FALSE for a body that is not a
\* JSON object (an empty or truncated body included).
JSONDecode(body) ==
    IF Len(body) = Len(JSONKeys) + 1 /\ body[1] = JSONObjectOpen
    THEN [ok |-> TRUE, doc |-> [k \in {JSONKeys[i] : i \in 1..Len(JSONKeys)} |->
             body[1 + (CHOOSE i \in 1..Len(JSONKeys) : JSONKeys[i] = k)]]]
    ELSE [ok |-> FALSE, doc |-> Doc(0, 0, 0, 0, 0, 0, 0, 0)]

\* the bodies the remote service answers with
RECURSIVE SeqsUpTo(_, _)
SeqsUpTo(S, n) ==
    IF n = 0 THEN {<<>>}
    ELSE LET shorter == SeqsUpTo(S, n - 1)
         IN  shorter \cup {Append(s, x) : s \in {t \in shorter : Len(t) = n - 1}, x \in S}
RawBodies == SeqsUpTo({0, 1}, MaxBodyLen)
UploadDocs ==
    {Doc(0, 0, t, m, th, at, 0, 0) : t \in {0, 3}, m \in {0, 4}, th \in {0, 5}, at \in {0, 6}}
ErrorDocs ==
    {Doc(40007, 1, 0, 0, 0, 0, 0, 0), Doc(40007, 1, 3, 4, 5, 6, 7, 8),
     Doc(-1, 2, 0, 0, 0, 0, 0, 0)}
OrderDocs ==
    {Doc(0, 0, 0, 0, 0, 0, o, l) : o \in {0, 7}, l \in {0, 8}}
\* a body that is not JSON: empty, or cut off after the opening brace
MalformedBodies == {<<>>, <<JSONObjectOpen>>}

\* ------------------------------------------------------- Content-Type header
\* A Content-Type header value: the media type as the server spelled it and
\* what follows it ("none": nothing, "charset": a well-formed parameter,
\* "bad": a parameter list that does not parse).  type "" is an absent header.
Header(type, param) == [type |-> type, param |-> param]
Headers ==
    {Header("", "none"), Header("application/octet-stream", "none"),
     Header("image/jpeg", "bad"), Header("text/plain", "charset"),
     Header("TEXT/PLAIN", "none"), Header("application/json", "none"),
     Header("Application/JSON", "charset"), Header("application/json", "bad")}
ToLower(type) ==
    CASE type = "TEXT/PLAIN" -> "text/plain"
      [] type = "Application/JSON" -> "application/json"
      [] OTHER -> type
\* mime.ParseMediaType(v): the media types it can return for header v.  It
\* lower-cases the type and drops the parameters; for an absent header it
\* returns "" (and an error, which the caller ignores); for parameters that
\* do not parse it returns "" or the media type, depending on the defect
\* (a duplicate parameter gives "") and on the Go release.
ParseMediaType(h) ==
    IF h.type = "" THEN {""}
    ELSE IF h.param = "bad" THEN {"", ToLower(h.type)}
    ELSE {ToLower(h.type)}

\* ---------------------------------------------------------------- responses
\* What httpClient.Get / Post returned: err is the transport error (NilErr
\* when there is a response), the rest is the response.
Response(err, status, header, body) ==
    [err |-> err, StatusCode |-> status, ContentType |-> header, Body |-> body]
NoResponse == Response(NilErr, 0, Header("", "none"), <<>>)
Statuses == {StatusOK, 500}
UploadBodies ==
    {JSONEncode(d) : d \in UploadDocs \cup ErrorDocs} \cup MalformedBodies
DownloadBodies ==
    RawBodies \cup {JSONEncode(d) : d \in ErrorDocs \cup {Doc(0, 0, 0, 0, 0, 0, 0, 0)}}
        \cup MalformedBodies
PostJSONBodies ==
    {JSONEncode(d) : d \in OrderDocs \cup ErrorDocs \cup {Doc(0, 0, 3, 4, 0, 6, 0, 0)}}
        \cup MalformedBodies
UploadResponses ==
    {Response(NilErr, s, Header("application/json", "none"), b) :
        s \in Statuses, b \in UploadBodies}
DownloadResponses ==
    {Response(NilErr, s, h, b) : s \in Statuses, h \in Headers, b \in DownloadBodies}
PostJSONResponses ==
    {Response(NilErr, s, Header("application/json", "charset"), b) :
        s \in Statuses, b \in PostJSONBodies}
\* the responses used when several uploads run at once
ConcurrentResponses ==
    {Response(NilErr, 500, Header("", "none"), <<>>),
     Response(NilErr, StatusOK, Header("application/json", "none"), <<>>),
     Response(NilErr, StatusOK, Header("application/json", "none"),
              JSONEncode(Doc(40007, 1, 0, 0, 0, 0, 0, 0))),
     Response(NilErr, StatusOK, Header("application/json", "none"),
              JSONEncode(Doc(0, 0, 3, 4, 5, 6, 0, 0)))}

\* ------------------------------------------------------------- file system
\* One path of the file system: whether a file exists there and its bytes.
FilePath == "media/a.jpg"
FilePaths == {FilePath, ""}
File(exists, data) == [exists |-> exists, data |-> data]
NoFile == File(FALSE, <<>>)
\* filepath.Base
Base(path) ==
    CASE path = "" -> "."
      [] path = "media/a.jpg" -> "a.jpg"
      [] OTHER -> path

\* ------------------------------------------------------------------- state
\* The arguments of a call (the fields an operation does not take keep their
\* zero value).  mediaReader / writer / payload say whether the argument is
\* non-nil; writer "file" is the file MediaDownloadToFile created; accepts
\* is the number of bytes the sink takes before its Write fails (-1: all);
\* oldFile is the file at filePath when MediaDownloadToFile was called.
NoArgs ==
    [op |-> "", mediaType |-> "", filename |-> "", mediaReader |-> FALSE,
     mediaId |-> 0, writer |-> "nil", accepts |-> -1, payload |-> 0,
     orderId |-> 0, status |-> 0, beginTime |-> 0, endTime |-> 0,
     deliveryCompany |-> 0, deliveryTrackNo |-> 0, filePath |-> "",
     oldFile |-> [exists |-> FALSE, data |-> <<>>]]
NoToken == [token |-> 0, err |-> NilErr]
NoRequest ==
    [endpoint |-> "", token |-> 0, mediaType |-> "", mediaId |-> 0, body |-> <<>>]
NoReturn == [result |-> NilResult, err |-> NilErr]

VARIABLES
    pc,       \* pc[p]: where call p stands
    args,     \* args[p]: the operation and its arguments
    tok,      \* tok[p]: what c.Token() returned
    bodyBuf,  \* bodyBuf[p]: the pooled buffer the call holds (0: none)
    request,  \* request[p]: the HTTP request the call issued
    resp,     \* resp[p]: what the transport returned
    sink,     \* sink[p]: the bytes written to the writer
    ret,      \* ret[p]: the values the call returned
    log,      \* log[p]: the interactions of the call, in order
    lent,     \* the buffers checked out of the pool
    fs        \* the file at FilePath

vars == <<pc, args, tok, bodyBuf, request, resp, sink, ret, log, lent, fs>>

Init ==
    /\ pc = [p \in Procs |-> "idle"]
    /\ args = [p \in Procs |-> NoArgs]
    /\ tok = [p \in Procs |-> NoToken]
    /\ bodyBuf = [p \in Procs |-> 0]
    /\ request = [p \in Procs |-> NoRequest]
    /\ resp = [p \in Procs |-> NoResponse]
    /\ sink = [p \in Procs |-> <<>>]
    /\ ret = [p \in Procs |-> NoReturn]
    /\ log = [p \in Procs |-> <<>>]
    /\ lent = {}
    /\ fs = NoFile

\* ------------------------------------------------------------ control flow
\* the call goes on to the statement at `label`, having performed `events`
Goto(p, label, events) ==
    /\ pc' = [pc EXCEPT ![p] = label]
    /\ log' = [log EXCEPT ![p] = @ \o events]
    /\ UNCHANGED <<ret, lent, bodyBuf>>
\* the call returns (result, err) after `events`; `defers` are the deferred
\* statements registered so far, in the order they run: "bodyclose" is
\* resp.Body.Close(), "put" is c.putBufferToPool(bodyBuf), "fclose" is
\* file.Close().
Return(p, result, err, events, defers) ==
    /\ pc' = [pc EXCEPT ![p] = "done"]
    /\ ret' = [ret EXCEPT ![p] = [result |-> result, err |-> err]]
    /\ log' = [log EXCEPT ![p] = @ \o events \o defers]
    /\ lent' = IF \E i \in 1..Len(defers) : defers[i] = "put"
               THEN lent \ {bodyBuf[p]} ELSE lent
    /\ UNCHANGED bodyBuf
\* the deferred file.Close() of the ...FromFile / ...ToFile wrappers
FileDefer(a) ==
    IF a.op \in {"MediaUploadFromFile", "MediaDownloadToFile"} THEN <<"fclose">> ELSE <<>>

\* ---------------------------------------------------------------- the caller
\* the caller takes the returned values; the call's records are discarded
Reset(p) ==
    /\ pc[p] = "done"
    /\ pc' = [pc EXCEPT ![p] = "idle"]
    /\ args' = [args EXCEPT ![p] = NoArgs]
    /\ tok' = [tok EXCEPT ![p] = NoToken]
    /\ bodyBuf' = [bodyBuf EXCEPT ![p] = 0]
    /\ request' = [request EXCEPT ![p] = NoRequest]
    /\ resp' = [resp EXCEPT ![p] = NoResponse]
    /\ sink' = [sink EXCEPT ![p] = <<>>]
    /\ ret' = [ret EXCEPT ![p] = NoReturn]
    /\ log' = [log EXCEPT ![p] = <<>>]
    /\ UNCHANGED <<lent, fs>>

\* ------------------------------------------------------------ token provider
Tokens == {1}
\* the statement a call reaches once it holds a token
AfterToken(op) ==
    CASE op \in {"MediaUpload", "MediaUploadFromFile"} -> "getbuf"
      [] op \in {"MediaDownload", "MediaDownloadToFile"} -> "get"
      [] OTHER -> "postJSON"
\* token, err := c.Token(); if err != nil { return nil, err }
Token(p) ==
    /\ pc[p] = "token"
    /\ \/ \E t \in Tokens :
            /\ tok' = [tok EXCEPT ![p] = [token |-> t, err |-> NilErr]]
            /\ Goto(p, AfterToken(args[p].op), <<"token">>)
       \/ \E e \in TokenErrs :
            /\ tok' = [tok EXCEPT ![p] = [token |-> 0, err |-> e]]
            /\ Return(p, NilResult, e, <<"token">>, FileDefer(args[p]))
    /\ UNCHANGED <<args, request, resp, sink, fs>>

\* if resp.StatusCode != http.StatusOK { return ... }
StatusIsOK_Unchecked(r) == TRUE
StatusIsOK(r) == r.StatusCode = StatusOK

\* --------------------------------------------------------------- MediaUpload
MediaUploadCheck_NoReaderCheck(a) ==
    IF a.mediaType \notin MediaTypes THEN PreconditionErr(1)
    ELSE IF a.filename = "" THEN PreconditionErr(2)
    ELSE NilErr
\* the switch on mediaType and the two checks that follow it
MediaUploadCheck(a) ==
    IF a.mediaType \notin MediaTypes THEN PreconditionErr(1)
    ELSE IF a.filename = "" THEN PreconditionErr(2)
    ELSE IF ~a.mediaReader THEN PreconditionErr(3)
    ELSE NilErr
\* MediaUpload is entered with arguments a, `before` having happened
MediaUploadEnter(p, a, before) ==
    IF MediaUploadCheck(a) # NilErr
    THEN Return(p, NilResult, MediaUploadCheck(a), before \o <<"precondition">>,
                FileDefer(a))
    ELSE Goto(p, "token", before \o <<"precondition">>)
MediaUpload(p, mediaType, filename, mediaReader) ==
    /\ pc[p] = "idle"
    /\ LET a == [NoArgs EXCEPT !.op = "MediaUpload", !.mediaType = mediaType,
                               !.filename = filename, !.mediaReader = mediaReader]
       IN  /\ args' = [args EXCEPT ![p] = a]
           /\ MediaUploadEnter(p, a, <<>>)
    /\ UNCHANGED <<tok, request, resp, sink, fs>>
\* os.Open succeeds only for an existing file (and may fail for one)
MediaUploadFromFile(p, mediaType, filePath) ==
    /\ pc[p] = "idle"
    /\ LET a == [NoArgs EXCEPT !.op = "MediaUploadFromFile", !.mediaType = mediaType,
                               !.filePath = filePath, !.filename = Base(filePath),
                               !.mediaReader = TRUE]
       IN  /\ args' = [args EXCEPT ![p] = a]
           /\ \/ Return(p, NilResult, OpenErr, <<"openfail">>, <<>>)
              \/ /\ filePath = FilePath
                 /\ fs.exists
                 /\ MediaUploadEnter(p, a, <<"open">>)
    /\ UNCHANGED <<tok, request, resp, sink, fs>>
\* the buffers the pool may hand out: never one that is checked out
PoolFree == Buffers \ lent
\* bodyBuf := c.getBufferFromPool(); defer c.putBufferToPool(bodyBuf)
MediaUploadGetBuffer(p) ==
    /\ pc[p] = "getbuf"
    /\ \E b \in PoolFree :
        /\ bodyBuf' = [bodyBuf EXCEPT ![p] = b]
        /\ lent' = lent \cup {b}
    /\ pc' = [pc EXCEPT ![p] = "encode"]
    /\ log' = [log EXCEPT ![p] = Append(@, "get")]
    /\ UNCHANGED <<args, tok, request, resp, sink, ret, fs>>
MediaUploadEncode_LatePut(p) ==
    /\ pc[p] = "encode"
    /\ \/ Goto(p, "post", <<"encode">>)
       \/ \E e \in IOErrs :
            Return(p, NilResult, e, <<"encode">>, FileDefer(args[p]))
    /\ UNCHANGED <<args, tok, request, resp, sink, fs>>
\* the multipart body is written into bodyBuf: CreateFormFile, io.Copy from
\* the reader, bodyWriter.Close; each of them may fail
MediaUploadEncode(p) ==
    /\ pc[p] = "encode"
    /\ \/ Goto(p, "post", <<"encode">>)
       \/ \E e \in IOErrs :
            Return(p, NilResult, e, <<"encode">>, <<"put">> \o FileDefer(args[p]))
    /\ UNCHANGED <<args, tok, request, resp, sink, fs>>
\* resp, err := c.httpClient.Post(_url, bodyContentType, bodyBuf)
MediaUploadPost(p, Responses) ==
    /\ pc[p] = "post"
    /\ request' = [request EXCEPT ![p] =
            [endpoint |-> "upload", token |-> tok[p].token,
             mediaType |-> args[p].mediaType, mediaId |-> 0,
             body |-> [file |-> args[p].filename]]]
    /\ \/ \E r \in Responses :
            /\ resp' = [resp EXCEPT ![p] = r]
            /\ Goto(p, "response", <<"http">>)
       \/ \E e \in TransportErrs :
            /\ resp' = [resp EXCEPT ![p] = [NoResponse EXCEPT !.err = e]]
            /\ Return(p, NilResult, e, <<"http">>, <<"put">> \o FileDefer(args[p]))
    /\ UNCHANGED <<args, tok, sink, fs>>
MediaUploadDecode_NoThumbCase(mediaType, body) ==
    LET d == JSONDecode(body)
    IN  IF ~d.ok THEN [result |-> NilResult, err |-> DecodeErr]
        ELSE IF d.doc.errcode # 0
        THEN [result |-> NilResult, err |-> RemoteErr(d.doc.errcode, d.doc.errmsg)]
        ELSE [result |-> UploadResponse(d.doc.type, d.doc.media_id, d.doc.created_at),
              err |-> NilErr]
\* the switch on mediaType that decodes the response body
MediaUploadDecode(mediaType, body) ==
    LET d == JSONDecode(body)
    IN  IF ~d.ok THEN [result |-> NilResult, err |-> DecodeErr]
        ELSE IF d.doc.errcode # 0
        THEN [result |-> NilResult, err |-> RemoteErr(d.doc.errcode, d.doc.errmsg)]
        ELSE IF mediaType = MEDIA_TYPE_THUMB
        THEN [result |-> UploadResponse(d.doc.type, d.doc.thumb_media_id, d.doc.created_at),
              err |-> NilErr]
        ELSE [result |-> UploadResponse(d.doc.type, d.doc.media_id, d.doc.created_at),
              err |-> NilErr]
\* defer resp.Body.Close(); the status check; the decode
MediaUploadResponse(p) ==
    /\ pc[p] = "response"
    /\ args[p].op \in {"MediaUpload", "MediaUploadFromFile"}
    /\ LET defers == <<"bodyclose", "put">> \o FileDefer(args[p])
           out == MediaUploadDecode(args[p].mediaType, resp[p].Body)
       IN  IF ~StatusIsOK(resp[p])
           THEN Return(p, NilResult, StatusErr(resp[p].StatusCode), <<>>, defers)
           ELSE Return(p, out.result, out.err, <<"decode">>, defers)
    /\ UNCHANGED <<args, tok, request, resp, sink, fs>>

\* ------------------------------------------------------------- MediaDownload
\* the sinks callers pass: how many bytes the writer takes before Write fails
SinkLimits == {-1} \cup 0..(MaxBodyLen - 1)
\* the two checks at the top of MediaDownload
MediaDownloadCheck(a) ==
    IF a.mediaId = 0 THEN PreconditionErr(4)
    ELSE IF a.writer = "nil" THEN PreconditionErr(5)
    ELSE NilErr
\* MediaDownload is entered with arguments a, `before` having happened
MediaDownloadEnter(p, a, before) ==
    IF MediaDownloadCheck(a) # NilErr
    THEN Return(p, NilResult, MediaDownloadCheck(a), before \o <<"precondition">>,
                FileDefer(a))
    ELSE Goto(p, "token", before \o <<"precondition">>)
MediaDownload(p, mediaId, writer, accepts) ==
    /\ pc[p] = "idle"
    /\ LET a == [NoArgs EXCEPT !.op = "MediaDownload", !.mediaId = mediaId,
                               !.writer = writer, !.accepts = accepts]
       IN  /\ args' = [args EXCEPT ![p] = a]
           /\ MediaDownloadEnter(p, a, <<>>)
    /\ UNCHANGED <<tok, request, resp, sink, fs>>
\* os.Create(filePath), when it succeeds: the file exists and is empty
Create_NoTruncate(file) == File(TRUE, file.data)
Create(file) == File(TRUE, <<>>)
\* file, err := os.Create(filePath); defer file.Close(); c.MediaDownload(mediaId, file)
MediaDownloadToFile(p, mediaId, filePath, accepts) ==
    /\ pc[p] = "idle"
    /\ LET a == [NoArgs EXCEPT !.op = "MediaDownloadToFile", !.mediaId = mediaId,
                               !.filePath = filePath, !.writer = "file",
                               !.accepts = accepts,
                               !.oldFile = fs]
       IN  /\ args' = [args EXCEPT ![p] = a]
           /\ \/ /\ Return(p, NilResult, OpenErr, <<"createfail">>, <<>>)
                 /\ UNCHANGED fs
              \/ /\ filePath = FilePath
                 /\ fs' = Create(fs)
                 /\ MediaDownloadEnter(p, a, <<"create">>)
    /\ UNCHANGED <<tok, request, resp, sink>>
MediaDownloadGet_Retry(p) ==
    /\ pc[p] = "get"
    /\ request' = [request EXCEPT ![p] =
            [endpoint |-> "download", token |-> tok[p].token, mediaType |-> "",
             mediaId |-> args[p].mediaId, body |-> <<>>]]
    /\ \/ \E r \in DownloadResponses :
            /\ resp' = [resp EXCEPT ![p] = r]
            /\ Goto(p, "response", <<"http">>)
       \/ \E e \in TransportErrs :
            /\ resp' = [resp EXCEPT ![p] = [NoResponse EXCEPT !.err = e]]
            /\ Goto(p, "get", <<"http">>)
    /\ UNCHANGED <<args, tok, sink, fs>>
\* resp, err := c.httpClient.Get(_url)
MediaDownloadGet(p) ==
    /\ pc[p] = "get"
    /\ request' = [request EXCEPT ![p] =
            [endpoint |-> "download", token |-> tok[p].token, mediaType |-> "",
             mediaId |-> args[p].mediaId, body |-> <<>>]]
    /\ \/ \E r \in DownloadResponses :
            /\ resp' = [resp EXCEPT ![p] = r]
            /\ Goto(p, "response", <<"http">>)
       \/ \E e \in TransportErrs :
            /\ resp' = [resp EXCEPT ![p] = [NoResponse EXCEPT !.err = e]]
            /\ Return(p, NilResult, e, <<"http">>, FileDefer(args[p]))
    /\ UNCHANGED <<args, tok, sink, fs>>
\* io.Copy(writer, body): the bytes that reach the writer and the error
Copy(body, accepts) ==
    IF accepts = -1 \/ Len(body) <= accepts
    THEN [written |-> body, err |-> NilErr]
    ELSE [written |-> SubSeq(body, 1, accepts), err |-> WriteErr]
MediaDownloadDecode_ZeroIsSuccess(body) ==
    LET d == JSONDecode(body)
    IN  IF ~d.ok THEN DecodeErr
        ELSE IF d.doc.errcode = 0 THEN NilErr
        ELSE RemoteErr(d.doc.errcode, d.doc.errmsg)
\* the response body read as an error envelope: return &result
MediaDownloadDecode(body) ==
    LET d == JSONDecode(body)
    IN  IF ~d.ok THEN DecodeErr ELSE RemoteErr(d.doc.errcode, d.doc.errmsg)
IsErrorContentType_AllowList(contentType) ==
    contentType # "application/octet-stream"
\* is the body an error document, given the parsed content type
IsErrorContentType(contentType) ==
    ~(contentType # "text/plain" /\ contentType # "application/json")
\* defer resp.Body.Close(); the status check; the content-type switch
MediaDownloadResponse(p) ==
    /\ pc[p] = "response"
    /\ args[p].op \in {"MediaDownload", "MediaDownloadToFile"}
    /\ LET defers == <<"bodyclose">> \o FileDefer(args[p])
           copied == Copy(resp[p].Body, args[p].accepts)
       IN  IF ~StatusIsOK(resp[p])
           THEN /\ Return(p, NilResult, StatusErr(resp[p].StatusCode), <<>>, defers)
                /\ UNCHANGED <<sink, fs>>
           ELSE \E contentType \in ParseMediaType(resp[p].ContentType) :
                IF ~IsErrorContentType(contentType)
                THEN /\ sink' = [sink EXCEPT ![p] = @ \o copied.written]
                     /\ fs' = IF args[p].writer = "file"
                              THEN File(TRUE, fs.data \o copied.written) ELSE fs
                     /\ Return(p, NilResult, copied.err, <<"ctype", "copy">>, defers)
                ELSE /\ Return(p, NilResult, MediaDownloadDecode(resp[p].Body),
                               <<"ctype", "decode">>, defers)
                     /\ UNCHANGED <<sink, fs>>
    /\ UNCHANGED <<args, tok, request, resp>>

\* ------------------------------------------- operations built on c.postJSON
PostJSONOps ==
    {"MediaUploadNews", "MediaUploadVideo", "MerchantOrderGetById",
     "MerchantOrderGetByFilter", "MerchantOrderSetDelivery", "MerchantOrderClose"}
\* if news == nil { return nil, errors.New("news == nil") }
MediaUploadNews(p, news) ==
    /\ pc[p] = "idle"
    /\ args' = [args EXCEPT ![p] = [NoArgs EXCEPT !.op = "MediaUploadNews", !.payload = news]]
    /\ IF news = 0
       THEN Return(p, NilResult, PreconditionErr(6), <<"precondition">>, <<>>)
       ELSE Goto(p, "token", <<"precondition">>)
    /\ UNCHANGED <<tok, request, resp, sink, fs>>
\* if video == nil { return nil, errors.New("video == nil") }
MediaUploadVideo(p, video) ==
    /\ pc[p] = "idle"
    /\ args' = [args EXCEPT ![p] = [NoArgs EXCEPT !.op = "MediaUploadVideo", !.payload = video]]
    /\ IF video = 0
       THEN Return(p, NilResult, PreconditionErr(7), <<"precondition">>, <<>>)
       ELSE Goto(p, "token", <<"precondition">>)
    /\ UNCHANGED <<tok, request, resp, sink, fs>>
MerchantOrderGetById(p, orderId) ==
    /\ pc[p] = "idle"
    /\ args' = [args EXCEPT ![p] =
            [NoArgs EXCEPT !.op = "MerchantOrderGetById", !.orderId = orderId]]
    /\ Goto(p, "token", <<>>)
    /\ UNCHANGED <<tok, request, resp, sink, fs>>
MerchantOrderGetByFilter(p, status, beginTime, endTime) ==
    /\ pc[p] = "idle"
    /\ args' = [args EXCEPT ![p] =
            [NoArgs EXCEPT !.op = "MerchantOrderGetByFilter", !.status = status,
                           !.beginTime = beginTime, !.endTime = endTime]]
    /\ Goto(p, "token", <<>>)
    /\ UNCHANGED <<tok, request, resp, sink, fs>>
MerchantOrderSetDelivery(p, orderId, deliveryCompany, deliveryTrackNo) ==
    /\ pc[p] = "idle"
    /\ args' = [args EXCEPT ![p] =
            [NoArgs EXCEPT !.op = "MerchantOrderSetDelivery", !.orderId = orderId,
                           !.deliveryCompany = deliveryCompany,
                           !.deliveryTrackNo = deliveryTrackNo]]
    /\ Goto(p, "token", <<>>)
    /\ UNCHANGED <<tok, request, resp, sink, fs>>
MerchantOrderClose(p, orderId) ==
    /\ pc[p] = "idle"
    /\ args' = [args EXCEPT ![p] =
            [NoArgs EXCEPT !.op = "MerchantOrderClose", !.orderId = orderId]]
    /\ Goto(p, "token", <<>>)
    /\ UNCHANGED <<tok, request, resp, sink, fs>>

\* json.Marshal of a struct: a field tagged omitempty is left out when it
\* holds its zero value
Marshal(fields, omitempty) ==
    [k \in {f \in DOMAIN fields : ~(f \in omitempty /\ fields[f] = 0)} |-> fields[k]]
FilterRequest_NoOmitEmpty(status, beginTime, endTime) ==
    Marshal([status |-> status, begintime |-> beginTime, endtime |-> endTime],
            {"begintime", "endtime"})
\* the request struct of MerchantOrderGetByFilter, with its json tags
FilterRequest(status, beginTime, endTime) ==
    Marshal([status |-> status, begintime |-> beginTime, endtime |-> endTime],
            {"status", "begintime", "endtime"})
\* the request value each operation hands to postJSON, as JSON
RequestBody(a) ==
    CASE a.op = "MediaUploadNews" -> Marshal([news |-> a.payload], {})
      [] a.op = "MediaUploadVideo" -> Marshal([video |-> a.payload], {})
      [] a.op = "MerchantOrderGetById" -> Marshal([order_id |-> a.orderId], {})
      [] a.op = "MerchantOrderGetByFilter" ->
            FilterRequest(a.status, a.beginTime, a.endTime)
      [] a.op = "MerchantOrderSetDelivery" ->
            Marshal([order_id |-> a.orderId, delivery_company |-> a.deliveryCompany,
                     delivery_track_no |-> a.deliveryTrackNo], {})
      [] OTHER -> Marshal([order_id |-> a.orderId], {})
\* c.postJSON(_url, request, &result), first half: the request is encoded
\* and POSTed once
postJSON(p) ==
    /\ pc[p] = "postJSON"
    /\ request' = [request EXCEPT ![p] =
            [endpoint |-> args[p].op, token |-> tok[p].token, mediaType |-> "",
             mediaId |-> 0, body |-> RequestBody(args[p])]]
    /\ \/ \E r \in PostJSONResponses :
            /\ resp' = [resp EXCEPT ![p] = r]
            /\ Goto(p, "response", <<"http">>)
       \/ \E e \in TransportErrs :
            /\ resp' = [resp EXCEPT ![p] = [NoResponse EXCEPT !.err = e]]
            /\ Return(p, NilResult, e, <<"http">>, <<>>)
    /\ UNCHANGED <<args, tok, sink, fs>>
AfterPostJSON_NoErrCodeCheck(op, d) ==
    CASE op \in {"MediaUploadNews", "MediaUploadVideo"} ->
            [result |-> UploadResponse(d.type, d.media_id, d.created_at), err |-> NilErr]
      [] op = "MerchantOrderGetById" ->
            [result |-> OrderResult(d.order), err |-> NilErr]
      [] op = "MerchantOrderGetByFilter" ->
            [result |-> OrderListResult(d.order_list), err |-> NilErr]
      [] OTHER -> [result |-> NilResult, err |-> NilErr]
\* what each operation returns once postJSON has filled `result` from doc d
AfterPostJSON(op, d) ==
    IF d.errcode # 0
    THEN [result |-> NilResult, err |-> RemoteErr(d.errcode, d.errmsg)]
    ELSE CASE op \in {"MediaUploadNews", "MediaUploadVideo"} ->
                [result |-> UploadResponse(d.type, d.media_id, d.created_at), err |-> NilErr]
           [] op = "MerchantOrderGetById" ->
                [result |-> OrderResult(d.order), err |-> NilErr]
           [] op = "MerchantOrderGetByFilter" ->
                [result |-> OrderListResult(d.order_list), err |-> NilErr]
           [] OTHER -> [result |-> NilResult, err |-> NilErr]
\* c.postJSON, second half: a status other than 200 and a body that does not
\* decode are errors; then the operation looks at the decoded error code
postJSONResponse(p) ==
    /\ pc[p] = "response"
    /\ args[p].op \in PostJSONOps
    /\ LET d == JSONDecode(resp[p].Body)
           out == AfterPostJSON(args[p].op, d.doc)
       IN  IF resp[p].StatusCode # StatusOK
           THEN Return(p, NilResult, StatusErr(resp[p].StatusCode), <<>>, <<"bodyclose">>)
           ELSE IF ~d.ok
           THEN Return(p, NilResult, DecodeErr, <<"decode">>, <<"bodyclose">>)
           ELSE Return(p, out.result, out.err, <<"decode">>, <<"bodyclose">>)
    /\ UNCHANGED <<args, tok, request, resp, sink, fs>>

\* ------------------------------------------------------------ specifications
\* the arguments callers pass
MediaTypeArgs == MediaTypes \cup {"", "music"}
FilenameArgs == {"", "a.jpg"}
MediaIdArgs == {0, 1}
WriterArgs == {"nil", "w"}
PayloadArgs == {0, 1}
OrderIdArgs == {0, 1}
StatusArgs == {0, 2, -1}
BeginTimeArgs == {0, 5}
EndTimeArgs == {0, 9}
ConcurrentMediaTypeArgs == {MEDIA_TYPE_IMAGE, MEDIA_TYPE_THUMB, "music"}
\* the caller of the one-caller specification
Caller == CHOOSE p \in Procs : \A q \in Procs : p <= q

\* one caller, every operation, one call after the other
Next ==
    \/ \E mt \in MediaTypeArgs, fn \in FilenameArgs, rd \in BOOLEAN :
            MediaUpload(Caller, mt, fn, rd)
    \/ \E mt \in MediaTypeArgs, path \in FilePaths : MediaUploadFromFile(Caller, mt, path)
    \/ \E id \in MediaIdArgs, w \in WriterArgs, n \in SinkLimits :
            MediaDownload(Caller, id, w, n)
    \/ \E id \in MediaIdArgs, path \in FilePaths, n \in SinkLimits :
            MediaDownloadToFile(Caller, id, path, n)
    \/ \E v \in PayloadArgs : MediaUploadNews(Caller, v)
    \/ \E v \in PayloadArgs : MediaUploadVideo(Caller, v)
    \/ \E id \in OrderIdArgs : MerchantOrderGetById(Caller, id)
    \/ \E st \in StatusArgs, b \in BeginTimeArgs, e \in EndTimeArgs :
            MerchantOrderGetByFilter(Caller, st, b, e)
    \/ \E id \in OrderIdArgs : MerchantOrderSetDelivery(Caller, id, 2, 3)
    \/ \E id \in OrderIdArgs : MerchantOrderClose(Caller, id)
    \/ Token(Caller)
    \/ MediaUploadGetBuffer(Caller)
    \/ MediaUploadEncode(Caller)
    \/ MediaUploadPost(Caller, UploadResponses)
    \/ MediaUploadResponse(Caller)
    \/ MediaDownloadGet(Caller)
    \/ MediaDownloadResponse(Caller)
    \/ postJSON(Caller)
    \/ postJSONResponse(Caller)
    \/ Reset(Caller)

Spec == Init /\ [][Next]_vars

\* NumCalls callers, each calling MediaUpload again and again
ConcurrentNext ==
    \E p \in Procs :
        \/ \E mt \in ConcurrentMediaTypeArgs : MediaUpload(p, mt, "a.jpg", TRUE)
        \/ Token(p)
        \/ MediaUploadGetBuffer(p)
        \/ MediaUploadEncode(p)
        \/ MediaUploadPost(p, ConcurrentResponses)
        \/ MediaUploadResponse(p)
        \/ Reset(p)

ConcurrentSpec == Init /\ [][ConcurrentNext]_vars

\* ---------------------------------------------------------------- properties
Count(s, e) == Cardinality({i \in 1..Len(s) : s[i] = e})
Has(s, e) == \E i \in 1..Len(s) : s[i] = e
Done(p) == pc[p] = "done"
UploadOps == {"MediaUpload", "MediaUploadFromFile"}
DownloadOps == {"MediaDownload", "MediaDownloadToFile"}
ResultOps ==
    UploadOps \cup {"MediaUploadNews", "MediaUploadVideo", "MerchantOrderGetById",
                    "MerchantOrderGetByFilter"}
\* the transport answered call p (with any status)
Answered(p) == Has(log[p], "http") /\ resp[p].err = NilErr
\* the response body of call p was decoded, and what it decoded to
Decoded(p) == Has(log[p], "decode") /\ JSONDecode(resp[p].Body).ok
Envelope(p) == JSONDecode(resp[p].Body).doc

\* the arguments violate the operation's stated precondition
ViolatesPrecondition(a) ==
    \/ /\ a.op \in UploadOps
       /\ \/ a.mediaType \notin {"image", "voice", "video", "thumb"}
          \/ a.filename = ""
          \/ ~a.mediaReader
    \/ /\ a.op \in DownloadOps
       /\ (a.mediaId = 0 \/ a.writer = "nil")
    \/ /\ a.op \in {"MediaUploadNews", "MediaUploadVideo"}
       /\ a.payload = 0

\* MediaUpload / MediaDownload itself was called: the wrapper opened its file
Entered(p) == ~Has(log[p], "openfail") /\ ~Has(log[p], "createfail")

\* C1: a call whose arguments violate the precondition has returned a non-nil
\* (precondition) error and a nil result, and has neither fetched a token,
\* checked a buffer out, issued an HTTP call nor written to the sink.
C1_PreconditionFailsFast ==
    \A p \in Procs :
        (pc[p] # "idle" /\ Entered(p) /\ ViolatesPrecondition(args[p])) =>
            /\ Done(p)
            /\ ret[p].err.kind = "precondition"
            /\ ret[p].result = NilResult
            /\ ~Has(log[p], "token") /\ tok[p] = NoToken
            /\ ~Has(log[p], "get") /\ bodyBuf[p] = 0
            /\ ~Has(log[p], "http") /\ request[p].endpoint = ""
            /\ ~Has(log[p], "copy") /\ sink[p] = <<>>
C1_Witness ==
    \E p \in Procs :
        /\ Done(p)
        /\ args[p].op = "MediaUpload"
        /\ args[p].mediaType = "image" /\ args[p].filename = "a.jpg"
        /\ ~args[p].mediaReader
        /\ ret[p].err.kind = "precondition"

\* the declared content type of the response, case-insensitively
DeclaredType(p) == ToLower(resp[p].ContentType.type)
\* the sink of call p takes every byte of the response body
SinkAcceptsAll(p) == args[p].accepts = -1 \/ Len(resp[p].Body) <= args[p].accepts

\* C2: a download answered 200 with a content type other than text/plain and
\* application/json, into a sink that accepts every write, has written
\* exactly the body to the sink, has decoded nothing and returns no error.
C2_BinaryBodyVerbatim ==
    \A p \in Procs :
        (/\ Done(p) /\ args[p].op \in DownloadOps /\ Answered(p)
         /\ resp[p].StatusCode = 200
         /\ DeclaredType(p) \notin {"text/plain", "application/json"}
         /\ SinkAcceptsAll(p)) =>
            /\ sink[p] = resp[p].Body
            /\ ~Has(log[p], "decode")
            /\ ret[p].err = NilErr
C2_Witness ==
    \E p \in Procs :
        /\ Done(p) /\ args[p].op = "MediaDownload"
        /\ resp[p].StatusCode = 200
        /\ resp[p].ContentType = Header("application/octet-stream", "none")
        /\ resp[p].Body = <<0, 1>>
        /\ sink[p] = <<0, 1>>
        /\ ret[p].err = NilErr

C4_ResultOnlyOnSuccess ==
    \A p \in Procs :
        Done(p) =>
            /\ args[p].op \in ResultOps =>
                /\ ret[p].err # NilErr => ret[p].result = NilResult
                /\ ret[p].result # NilResult => (Decoded(p) /\ Envelope(p).errcode = 0)
            /\ (Decoded(p) /\ Envelope(p).errcode # 0
                    /\ args[p].op \in ResultOps \cup {"MerchantOrderSetDelivery",
                                                     "MerchantOrderClose"}) =>
                /\ ret[p].result = NilResult
                /\ ret[p].err = RemoteErr(Envelope(p).errcode, Envelope(p).errmsg)
            /\ args[p].op \in {"MerchantOrderSetDelivery", "MerchantOrderClose"} =>
                (ret[p].err = NilErr <=>
                    /\ tok[p].err = NilErr /\ Has(log[p], "token")
                    /\ Answered(p)
                    /\ Decoded(p)
                    /\ Envelope(p).errcode = 0)
C4_Witness ==
    \E p \in Procs :
        /\ Done(p) /\ args[p].op = "MerchantOrderGetById"
        /\ resp[p].Body = JSONEncode(Doc(40007, 1, 3, 4, 5, 6, 7, 8))
        /\ Decoded(p)
        /\ ret[p].result = NilResult
        /\ ret[p].err = RemoteErr(40007, 1)

\* C5: a successful MediaUpload returns the response's thumb_media_id as
\* identifier when the media type is thumb and its media_id otherwise; type
\* and created_at are copied unchanged.
C5_ThumbIdentifier ==
    \A p \in Procs :
        (Done(p) /\ args[p].op \in UploadOps /\ ret[p].err = NilErr) =>
            /\ Decoded(p) /\ resp[p].StatusCode = 200 /\ Envelope(p).errcode = 0
            /\ ret[p].result.kind = "upload"
            /\ ret[p].result.MediaId =
                 IF args[p].mediaType = "thumb"
                 THEN Envelope(p).thumb_media_id ELSE Envelope(p).media_id
            /\ ret[p].result.MediaType = Envelope(p).type
            /\ ret[p].result.CreatedAt = Envelope(p).created_at
C5_Witness ==
    \E p \in Procs :
        /\ Done(p) /\ args[p].op = "MediaUpload" /\ args[p].mediaType = "thumb"
        /\ resp[p].Body = JSONEncode(Doc(0, 0, 3, 4, 5, 6, 0, 0))
        /\ ret[p].err = NilErr
        /\ ret[p].result = UploadResponse(3, 5, 6)

\* C6: MediaUpload and MediaDownload answered with a status other than 200
\* return an error holding that status; the body is not decoded, the content
\* type is not looked at, the result is nil and nothing reaches the sink.
C6_StatusBeforeDecode ==
    \A p \in Procs :
        (/\ pc[p] # "response" /\ args[p].op \in UploadOps \cup DownloadOps
         /\ Answered(p) /\ resp[p].StatusCode # 200) =>
            /\ Done(p)
            /\ ret[p].err = StatusErr(resp[p].StatusCode)
            /\ ret[p].result = NilResult
            /\ ~Has(log[p], "decode") /\ ~Has(log[p], "ctype")
            /\ ~Has(log[p], "copy") /\ sink[p] = <<>>
C6_Witness ==
    \E p \in Procs :
        /\ Done(p) /\ args[p].op = "MediaDownload"
        /\ resp[p].StatusCode = 500
        /\ resp[p].ContentType = Header("application/octet-stream", "none")
        /\ resp[p].Body = <<0, 1>>
        /\ ret[p].err = StatusErr(500)
        /\ sink[p] = <<>>

\* C7: the body MerchantOrderGetByFilter sends holds the key status
\* (begintime, endtime) exactly when the argument status (beginTime, endTime)
\* is not 0, each independently, and a key that is there holds the argument.
C7_FilterKeysOmitted ==
    \A p \in Procs :
        (args[p].op = "MerchantOrderGetByFilter" /\ Has(log[p], "http")) =>
            LET body == request[p].body
                arg == [status |-> args[p].status, begintime |-> args[p].beginTime,
                        endtime |-> args[p].endTime]
            IN  /\ DOMAIN body \subseteq DOMAIN arg
                /\ \A k \in DOMAIN arg :
                    /\ k \in DOMAIN body <=> arg[k] # 0
                    /\ k \in DOMAIN body => body[k] = arg[k]
C7_Witness ==
    \E p \in Procs :
        /\ args[p].op = "MerchantOrderGetByFilter" /\ Has(log[p], "http")
        /\ args[p].status = 0 /\ args[p].beginTime = 0 /\ args[p].endTime = 0
        /\ DOMAIN request[p].body = {}

\* call p holds a pooled buffer: it checked one out and has not returned it
Holds(p) == Has(log[p], "get") /\ ~Has(log[p], "put")
\* the position of the first event e in s (0 when there is none)
First(s, e) == IF Has(s, e) THEN CHOOSE i \in 1..Len(s) : s[i] = e /\ \A j \in 1..(i - 1) : s[j] # e ELSE 0

\* C8: with several MediaUpload calls running at once, a call checks out at
\* most one buffer, right after its precondition check and token fetch
\* succeeded and before it encodes or posts; it has returned the buffer
\* exactly once when it has returned, on every exit path; it does not use a
\* buffer after returning it; no two calls hold the same buffer; the buffers
\* checked out are exactly those held by running calls.
C8_BufferReturnedOnEveryPath ==
    /\ \A p \in Procs :
        /\ Count(log[p], "get") <= 1 /\ Count(log[p], "put") <= Count(log[p], "get")
        /\ Has(log[p], "get") =>
            /\ SubSeq(log[p], 1, First(log[p], "get") - 1) = <<"precondition", "token">>
            /\ tok[p].err = NilErr
            /\ \A i \in 1..Len(log[p]) :
                log[p][i] \in {"encode", "http"} => i > First(log[p], "get")
        /\ Has(log[p], "put") =>
            \A i \in 1..Len(log[p]) :
                log[p][i] \in {"encode", "http", "decode"} => i < First(log[p], "put")
        /\ Done(p) => Count(log[p], "put") = Count(log[p], "get")
        /\ (Done(p) /\ ret[p].err.kind \notin {"precondition", "token"}) =>
                Count(log[p], "put") = 1
        /\ ~Done(p) => ~Has(log[p], "put")
        /\ Holds(p) => bodyBuf[p] \in lent
    /\ \A p, q \in Procs : (p # q /\ Holds(p) /\ Holds(q)) => bodyBuf[p] # bodyBuf[q]
    /\ lent = {bodyBuf[p] : p \in {q \in Procs : Holds(q)}}
    /\ (\A p \in Procs : pc[p] \in {"idle", "done"}) => lent = {}
C8_Witness ==
    \E p, q \in Procs :
        /\ p # q
        /\ pc[p] = "post" /\ Holds(p)
        /\ Done(q) /\ ret[q].err = DecodeErr /\ Count(log[q], "put") = 1
        /\ lent = {bodyBuf[p]}

\* the four steps of an operation, and their order
StepRank(e) ==
    CASE e = "precondition" -> 1 [] e = "token" -> 2 [] e = "http" -> 3
      [] e = "decode" -> 4 [] OTHER -> 0
Steps(s) == SelectSeq(s, LAMBDA e : StepRank(e) > 0)

\* C9: a call performs precondition check, token fetch, HTTP call and decode
\* in that order, each at most once; a failed token fetch returns the token
\* provider's error unchanged without an HTTP call; a failed HTTP call
\* returns the transport's error unchanged without a second call.
C9_OneShotInOrder ==
    \A p \in Procs :
        /\ \A i, j \in 1..Len(Steps(log[p])) :
            i < j => StepRank(Steps(log[p])[i]) < StepRank(Steps(log[p])[j])
        /\ Count(log[p], "token") <= 1 /\ Count(log[p], "http") <= 1
        /\ tok[p].err # NilErr =>
            /\ Done(p) /\ ret[p].err = tok[p].err /\ ret[p].result = NilResult
            /\ ~Has(log[p], "http")
        /\ resp[p].err # NilErr =>
            /\ Done(p) /\ ret[p].err = resp[p].err /\ ret[p].result = NilResult
            /\ Count(log[p], "http") = 1
C9_Witness ==
    \E p \in Procs :
        /\ Done(p) /\ args[p].op = "MerchantOrderSetDelivery"
        /\ resp[p].err \in TransportErrs
        /\ ret[p].err = resp[p].err
        /\ Steps(log[p]) = <<"token", "http">>

\* the listed ways a download fails before any byte is streamed
FailsBeforeStreaming(e) ==
    e.kind \in {"precondition", "token", "transport", "status", "remote", "decode"}

\* C10: MediaDownloadToFile creates (truncates) the file before the media id
\* is checked, the token fetched or an HTTP call made.  Once the file is
\* created its previous contents are gone: it holds what this call wrote,
\* and is empty after a call that failed for an empty media id, a token or
\* transport failure, a status other than 200 or an error body.  The file is
\* closed exactly once, as the last thing the call does.  A failed create
\* leaves the file as it was and closes nothing.
C10_FileTruncatedFirst ==
    \A p \in Procs :
        (args[p].op = "MediaDownloadToFile" /\ pc[p] # "idle") =>
            /\ log[p][1] \in {"create", "createfail"}
            /\ log[p][1] = "create" =>
                /\ fs = File(TRUE, sink[p])
                /\ (Done(p) /\ FailsBeforeStreaming(ret[p].err)) => fs = File(TRUE, <<>>)
                /\ Done(p) =>
                    (Count(log[p], "fclose") = 1 /\ log[p][Len(log[p])] = "fclose")
                /\ ~Done(p) => ~Has(log[p], "fclose")
            /\ log[p][1] = "createfail" =>
                /\ Done(p) /\ ret[p].err = OpenErr
                /\ fs = args[p].oldFile
                /\ log[p] = <<"createfail">>
C10_Witness ==
    \E p \in Procs :
        /\ Done(p) /\ args[p].op = "MediaDownloadToFile"
        /\ args[p].mediaId = 0
        /\ args[p].oldFile = File(TRUE, <<0, 1>>)
        /\ ret[p].err.kind = "precondition"
        /\ fs = File(TRUE, <<>>)
        /\ Count(log[p], "fclose") = 1

====
